---- MODULE Spec2Model ----
(***************************************************************************)
(* A model of algebra_kit: the Euclidean algorithms of src/algebra.rs      *)
(* (gcd, ext_gcd) and mod_inv, the prime field ZM<Q> and the additive      *)
(* group AdditiveGroupZM<N> of src/std_impls.rs.                           *)
(*                                                                         *)
(* Three state machines share the module, one per unit of the library:     *)
(*   SpecGcd    a session that picks (a, b), runs gcd(&a, &b) one          *)
(*              recursive call at a time, and calls ext_gcd and mod_inv    *)
(*              on the same pair;                                          *)
(*   SpecZM     an accumulator of type ZM<Q> to which the operators of     *)
(*              the type are applied, the right operands built by          *)
(*              from_int;                                                  *)
(*   SpecGroup  the same for AdditiveGroupZM<N>.                           *)
(*                                                                         *)
(* i64 is modelled as a signed IntBits-bit integer: the arithmetic of ZM   *)
(* overflows exactly as the code's does, at a scaled width.                *)
(***************************************************************************)
EXTENDS Integers, Sequences, FiniteSets, TLC

VARIABLES
    gpc,      \* SpecGcd: "idle" | "run" | "done", the position of gcd's recursion
    gin,      \* the pair <<a, b>> the session was started with
    ga, gb,   \* the arguments of the current call gcd(&ga, &gb)
    glast,    \* the branch the previous call took: "none" | "swap" | "rem"
    gres,     \* the value gcd returned
    edone,    \* whether ext_gcd(a, b) was called in this session
    eres,     \* the triple <<g, x, y>> it returned
    mdone,    \* whether mod_inv(a, b) was called in this session
    mres,     \* the value it returned
    build,    \* "debug" (overflow checks: panic) | "release" (wrapping)
    zq,       \* SpecZM: the modulus Q of ZM<Q>
    zval,     \* val of the current ZM<Q> value
    zprev,    \* val of the left operand (self) of the last operation
    zarg,     \* val of its right operand, or the exponent, or the integer converted
    zop,      \* the last operation
    zst,      \* "ok" | "panic"
    zn,       \* the number of operations applied so far
    an,       \* SpecGroup: the modulus N of AdditiveGroupZM<N>
    aval,     \* val of the current AdditiveGroupZM<N> value
    aprev,    \* val of the left operand (self) of the last operation
    aarg,     \* val of its right operand
    aop       \* the last operation

gvars == <<gpc, gin, ga, gb, glast, gres, edone, eres, mdone, mres>>
zvars == <<build, zq, zval, zprev, zarg, zop, zst, zn>>
avars == <<an, aval, aprev, aarg, aop>>
vars == <<gvars, zvars, avars>>

----------------------------------------------------------------------------
(* Bounds of the model *)

\* gcd, ext_gcd and mod_inv are called on pairs of -MaxArg..MaxArg
MaxArg == 13
\* from_int and From<i64> are called on -MaxIn..MaxIn
MaxIn == 4
\* power is called with exponents -MaxExp..MaxExp
MaxExp == 3
\* a ZM<Q> value is the result of at most MaxOps operations
MaxOps == 3
\* the width of the model's i64, in bits
IntBits == 9
\* AdditiveGroupZM<N> is instantiated for N in 1..MaxN
MaxN == 6
\* AdditiveGroupZM::div, which does not reduce, is not applied below -MaxDrift
MaxDrift == 8

----------------------------------------------------------------------------
(* i64 arithmetic *)

Abs(x) == IF x < 0 THEN -x ELSE x

MaxInt == 2 ^ (IntBits - 1) - 1
MinInt == -(2 ^ (IntBits - 1))
InRange(v) == v >= MinInt /\ v <= MaxInt

\* two's complement wrapping of an unbounded result
Wrap(v) == ((v - MinInt) % (2 ^ IntBits)) + MinInt

\* i64's / : truncating division
DivT(a, b) ==
    IF (a >= 0) = (b >= 0) THEN Abs(a) \div Abs(b) ELSE -(Abs(a) \div Abs(b))

\* i64's % : the remainder of truncating division, with the dividend's sign
RemT(a, b) == a - b * DivT(a, b)

\* i64::rem_euclid for a positive modulus: the non-negative remainder
rem_euclid(x, m) == x % m

----------------------------------------------------------------------------
(* EuclideanDomain for i64, ext_gcd, gcd, mod_inv *)

euc_size(x) == Abs(x)

quotient_and_remainder(x, divisor) == <<DivT(x, divisor), RemT(x, divisor)>>

RECURSIVE ext_gcd_plus(_, _)
ext_gcd_plus(a, b) ==
    IF a = 0 THEN <<b, 0, 1>>
    ELSE LET qr == quotient_and_remainder(b, a)
             rec == ext_gcd_plus(qr[2], a)
         IN  <<rec[1], rec[3] + qr[1] * rec[2], rec[2]>>

RECURSIVE ext_gcd(_, _)
ext_gcd(a, b) ==
    IF a = 0 THEN <<b, 0, 1>>
    ELSE LET qr == quotient_and_remainder(b, a)
             rec == ext_gcd(qr[2], a)
         IN  <<rec[1], rec[3] - qr[1] * rec[2], rec[2]>>

mod_inv_third(x, m) == ext_gcd(x, m)[3]

mod_inv(x, m) == ext_gcd(x, m)[2]

gcd_branch_le(a, b) ==
    IF a = 0 THEN "ret_b"
    ELSE IF b = 0 THEN "ret_a"
    ELSE IF euc_size(a) <= euc_size(b) THEN "swap"
    ELSE "rem"

\* the branch the call gcd(&a, &b) takes
gcd_branch(a, b) ==
    IF a = 0 THEN "ret_b"
    ELSE IF b = 0 THEN "ret_a"
    ELSE IF euc_size(a) < euc_size(b) THEN "swap"
    ELSE "rem"

Args == (-MaxArg) .. MaxArg

gInit ==
    /\ gpc = "idle"
    /\ gin = <<0, 0>>
    /\ ga = 0
    /\ gb = 0
    /\ glast = "none"
    /\ gres = 0
    /\ edone = FALSE
    /\ eres = <<0, 0, 0>>
    /\ mdone = FALSE
    /\ mres = 0

\* a caller picks the pair and calls gcd(&a, &b)
CallGcd(a, b) ==
    /\ gpc = "idle"
    /\ gpc' = "run"
    /\ gin' = <<a, b>>
    /\ ga' = a
    /\ gb' = b
    /\ glast' = "none"
    /\ gres' = 0
    /\ edone' = FALSE
    /\ eres' = <<0, 0, 0>>
    /\ mdone' = FALSE
    /\ mres' = 0
    /\ UNCHANGED <<zvars, avars>>

\* if a.is_zero() { b.clone() }
GcdRetB ==
    /\ gpc = "run"
    /\ gcd_branch(ga, gb) = "ret_b"
    /\ gres' = gb
    /\ gpc' = "done"
    /\ UNCHANGED <<gin, ga, gb, glast, edone, eres, mdone, mres>>
    /\ UNCHANGED <<zvars, avars>>

\* else if b.is_zero() { a.clone() }
GcdRetA ==
    /\ gpc = "run"
    /\ gcd_branch(ga, gb) = "ret_a"
    /\ gres' = ga
    /\ gpc' = "done"
    /\ UNCHANGED <<gin, ga, gb, glast, edone, eres, mdone, mres>>
    /\ UNCHANGED <<zvars, avars>>

\* else if a.euc_size() < b.euc_size() { gcd(b, a) }
GcdSwap ==
    /\ gpc = "run"
    /\ gcd_branch(ga, gb) = "swap"
    /\ ga' = gb
    /\ gb' = ga
    /\ glast' = "swap"
    /\ UNCHANGED <<gpc, gin, gres, edone, eres, mdone, mres>>
    /\ UNCHANGED <<zvars, avars>>

\* else { let (_, r) = a.quotient_and_remainder(b); gcd(b, &r) }
GcdRem ==
    /\ gpc = "run"
    /\ gcd_branch(ga, gb) = "rem"
    /\ ga' = gb
    /\ gb' = quotient_and_remainder(ga, gb)[2]
    /\ glast' = "rem"
    /\ UNCHANGED <<gpc, gin, gres, edone, eres, mdone, mres>>
    /\ UNCHANGED <<zvars, avars>>

\* let (g, x, y) = ext_gcd(a, b), on the session's pair
CallExtGcd ==
    /\ gpc = "done"
    /\ ~edone
    /\ eres' = ext_gcd(gin[1], gin[2])
    /\ edone' = TRUE
    /\ UNCHANGED <<gpc, gin, ga, gb, glast, gres, mdone, mres>>
    /\ UNCHANGED <<zvars, avars>>

\* mod_inv(a, b), on the session's pair
CallModInv ==
    /\ gpc = "done"
    /\ ~mdone
    /\ mres' = mod_inv(gin[1], gin[2])
    /\ mdone' = TRUE
    /\ UNCHANGED <<gpc, gin, ga, gb, glast, gres, edone, eres>>
    /\ UNCHANGED <<zvars, avars>>

\* the session ends; the next one starts from scratch
GcdReset ==
    /\ gpc = "done"
    /\ gpc' = "idle"
    /\ gin' = <<0, 0>>
    /\ ga' = 0
    /\ gb' = 0
    /\ glast' = "none"
    /\ gres' = 0
    /\ edone' = FALSE
    /\ eres' = <<0, 0, 0>>
    /\ mdone' = FALSE
    /\ mres' = 0
    /\ UNCHANGED <<zvars, avars>>

----------------------------------------------------------------------------
(* ZM<Q> *)

Ok(v) == [st |-> "ok", val |-> v]
Panic == [st |-> "panic", val |-> 0]

\* An i64 +, - or * whose exact result is v: the result itself when it fits;
\* otherwise a panic where overflow checks are on and the wrapped value
\* where they are off.
Arith(v, bld) ==
    IF InRange(v) THEN Ok(v)
    ELSE IF bld = "debug" THEN Panic
    ELSE Ok(Wrap(v))

\* ZM::<Q> { val: value.rem_euclid(Q) }
ZM_from(value, Q) == Ok(rem_euclid(value, Q))

\* ZM::<Q> { val: (self.val + rhs.val) % Q }
ZM_add(a, b, Q, bld) ==
    LET s == Arith(a + b, bld)
    IN  IF s.st = "panic" THEN Panic ELSE Ok(RemT(s.val, Q))

\* ZM::<Q> { val: (self.val - rhs.val + Q) % Q }
ZM_sub(a, b, Q, bld) ==
    LET d == Arith(a - b, bld)
        s == IF d.st = "panic" THEN Panic ELSE Arith(d.val + Q, bld)
    IN  IF s.st = "panic" THEN Panic ELSE Ok(RemT(s.val, Q))

\* let product = self.val.rem_euclid(Q) * rhs.val.rem_euclid(Q);
\* ZM::<Q> { val: product % Q }
ZM_mul(a, b, Q, bld) ==
    LET product == Arith(rem_euclid(a, Q) * rem_euclid(b, Q), bld)
    IN  IF product.st = "panic" THEN Panic ELSE Ok(RemT(product.val, Q))

\* (Q - self.val).into()
ZM_neg(a, Q, bld) ==
    LET d == Arith(Q - a, bld)
    IN  IF d.st = "panic" THEN Panic ELSE ZM_from(d.val, Q)

\* mod_inv(self.val, Q).into()
ZM_inverse(a, Q) == ZM_from(mod_inv(a, Q), Q)

\* self * mod_inv(rhs.val, Q).into()
ZM_div(a, b, Q, bld) == ZM_mul(a, ZM_from(mod_inv(b, Q), Q).val, Q, bld)

\* for _ in 1..=n { power *= *self }, from the accumulator acc with k rounds left
RECURSIVE power_loop(_, _, _, _, _)
power_loop(acc, a, k, Q, bld) ==
    IF k <= 0 \/ acc.st = "panic" THEN acc
    ELSE power_loop(ZM_mul(acc.val, a, Q, bld), a, k - 1, Q, bld)

\* let mut power = ZM::<Q>::one(); the loop; power
ZM_power(a, n, Q, bld) == power_loop(Ok(1), a, n, Q, bld)

\* the moduli ZM<Q> is instantiated for: primes the width holds the products
\* of, a composite, a prime whose products overflow, and the largest i64
Moduli == {2, 3, 5, 6, 7, 11, 13, 17, MaxInt}

Ints == (-MaxIn) .. MaxIn
Exps == (-MaxExp) .. MaxExp

\* the right operands: a value built by from_int(y), or the accumulator itself
\* (ZM is Copy: a / a)
Operands == {<<"from_int", y>> : y \in Ints} \cup {<<"self", 0>>}
Rhs(c) == IF c[1] = "self" THEN zval ELSE ZM_from(c[2], zq).val

zInit ==
    /\ build \in {"debug", "release"}
    /\ zq \in Moduli
    /\ zval = 0
    /\ zprev = 0
    /\ zarg = 0
    /\ zop = "zero"
    /\ zst = "ok"
    /\ zn = 0

\* the operation op on the accumulator with argument arg ends with outcome r
Apply(op, arg, r) ==
    /\ zst = "ok"
    /\ zn < MaxOps
    /\ zn' = zn + 1
    /\ zprev' = zval
    /\ zarg' = arg
    /\ zop' = op
    /\ zst' = r.st
    /\ zval' = r.val
    /\ UNCHANGED <<build, zq>>
    /\ UNCHANGED <<gvars, avars>>

FromInt(x) ==
    /\ x \in Ints
    /\ Apply("from_int", x, ZM_from(x, zq))

Zero ==
    /\ zst = "ok"
    /\ Apply("zero", 0, Ok(0))

One ==
    /\ zst = "ok"
    /\ Apply("one", 0, Ok(1))

\* the values of the other fields ZM<P> that are converted: built by from_int
Others == {ZM_from(x, p).val : x \in Ints, p \in Moduli}

\* ZM::<Q>::convert(other): other.val.into()
Convert(v) ==
    /\ v \in Others
    /\ Apply("convert", v, ZM_from(v, zq))

Add(c) ==
    LET b == Rhs(c)
    IN  /\ c \in Operands
        /\ Apply("add", b, ZM_add(zval, b, zq, build))

AddAssign(c) ==
    LET b == Rhs(c)
    IN  /\ c \in Operands
        /\ Apply("add_assign", b, ZM_add(zval, b, zq, build))

Sub(c) ==
    LET b == Rhs(c)
    IN  /\ c \in Operands
        /\ Apply("sub", b, ZM_sub(zval, b, zq, build))

SubAssign(c) ==
    LET b == Rhs(c)
    IN  /\ c \in Operands
        /\ Apply("sub_assign", b, ZM_sub(zval, b, zq, build))

Mul(c) ==
    LET b == Rhs(c)
    IN  /\ c \in Operands
        /\ Apply("mul", b, ZM_mul(zval, b, zq, build))

MulAssign(c) ==
    LET b == Rhs(c)
    IN  /\ c \in Operands
        /\ Apply("mul_assign", b, ZM_mul(zval, b, zq, build))

Neg ==
    /\ zst = "ok"
    /\ Apply("neg", 0, ZM_neg(zval, zq, build))

Div(c) ==
    LET b == Rhs(c)
    IN  /\ c \in Operands
        /\ Apply("div", b, ZM_div(zval, b, zq, build))

DivAssign(c) ==
    LET b == Rhs(c)
    IN  /\ c \in Operands
        /\ Apply("div_assign", b, ZM_div(zval, b, zq, build))

Inverse ==
    /\ zst = "ok"
    /\ Apply("inverse", 0, ZM_inverse(zval, zq))

Power(n) ==
    /\ n \in Exps
    /\ Apply("power", n, ZM_power(zval, n, zq, build))

----------------------------------------------------------------------------
(* AdditiveGroupZM<N> *)

\* AdditiveGroupZM { val: x.rem_euclid(N) }
AG_from_int(x, N) == rem_euclid(x, N)

\* AdditiveGroupZM { val: (self.val + rhs.val).rem_euclid(N) }
AG_add(a, b, N) == rem_euclid(a + b, N)

\* self.val -= rhs.val; self.val = self.val.rem_euclid(N);
AG_add_assign(a, b, N) == rem_euclid(a - b, N)

\* AdditiveGroupZM { val: (-self.val).rem_euclid(N) }
AG_neg(a, N) == rem_euclid(-a, N)

\* AdditiveGroupZM { val: (self.val - rhs.val).rem_euclid(N) }
AG_sub(a, b, N) == rem_euclid(a - b, N)

\* self.val -= rhs.val; self.val = self.val.rem_euclid(N)
AG_sub_assign(a, b, N) == rem_euclid(a - b, N)

\* self + rhs
AG_mul(a, b, N) == AG_add(a, b, N)

\* *self += rhs
AG_mul_assign(a, b, N) == AG_add_assign(a, b, N)

\* AdditiveGroupZM { val: self.val - rhs.val }
AG_div(a, b, N) == a - b

\* *self -= rhs
AG_div_assign(a, b, N) == AG_sub_assign(a, b, N)

\* -(*self)
AG_inverse(a, N) == AG_neg(a, N)

\* self.val.rem_euclid(N) == other.val.rem_euclid(N)
AG_eq(a, b, N) == rem_euclid(a, N) = rem_euclid(b, N)

\* the right operands: a value built by from_int(y), or the accumulator itself
ARhs(c) == IF c[1] = "self" THEN aval ELSE AG_from_int(c[2], an)

aInit ==
    /\ an \in 1 .. MaxN
    /\ aval = 0
    /\ aprev = 0
    /\ aarg = 0
    /\ aop = "identity"

\* the operation op on the accumulator with right operand arg gives value v
AApply(op, arg, v) ==
    /\ aprev' = aval
    /\ aarg' = arg
    /\ aop' = op
    /\ aval' = v
    /\ UNCHANGED an
    /\ UNCHANGED <<gvars, zvars>>

AFromInt(x) ==
    /\ x \in Ints
    /\ AApply("from_int", x, AG_from_int(x, an))

AIdentity ==
    /\ an >= 1
    /\ AApply("identity", 0, 0)

\* AdditiveGroupZM { val: rand::thread_rng().gen_range(0..N) }
ARandom(v) ==
    /\ v < an
    /\ AApply("random", 0, v)

AAdd(c) ==
    LET b == ARhs(c)
    IN  /\ c \in Operands
        /\ AApply("add", b, AG_add(aval, b, an))

AAddAssign(c) ==
    LET b == ARhs(c)
    IN  /\ c \in Operands
        /\ AApply("add_assign", b, AG_add_assign(aval, b, an))

ANeg ==
    /\ an >= 1
    /\ AApply("neg", 0, AG_neg(aval, an))

ASub(c) ==
    LET b == ARhs(c)
    IN  /\ c \in Operands
        /\ AApply("sub", b, AG_sub(aval, b, an))

ASubAssign(c) ==
    LET b == ARhs(c)
    IN  /\ c \in Operands
        /\ AApply("sub_assign", b, AG_sub_assign(aval, b, an))

AMul(c) ==
    LET b == ARhs(c)
    IN  /\ c \in Operands
        /\ AApply("mul", b, AG_mul(aval, b, an))

AMulAssign(c) ==
    LET b == ARhs(c)
    IN  /\ c \in Operands
        /\ AApply("mul_assign", b, AG_mul_assign(aval, b, an))

\* the stored value of a quotient is not reduced: the model stops dividing
\* once it is MaxDrift away from zero
ADiv(c) ==
    LET b == ARhs(c)
    IN  /\ Abs(AG_div(aval, b, an)) <= MaxDrift
        /\ AApply("div", b, AG_div(aval, b, an))

ADivAssign(c) ==
    LET b == ARhs(c)
    IN  /\ c \in Operands
        /\ AApply("div_assign", b, AG_div_assign(aval, b, an))

AInverse ==
    /\ an >= 1
    /\ AApply("inverse", 0, AG_inverse(aval, an))

----------------------------------------------------------------------------
(* The specifications *)

\* the units a specification does not run stay as constructed
gIdle == gInit
zIdle ==
    /\ build = "debug"
    /\ zq = 2
    /\ zval = 0
    /\ zprev = 0
    /\ zarg = 0
    /\ zop = "zero"
    /\ zst = "ok"
    /\ zn = 0
aIdle ==
    /\ an = 1
    /\ aval = 0
    /\ aprev = 0
    /\ aarg = 0
    /\ aop = "identity"

InitGcd == gInit /\ zIdle /\ aIdle

NextGcd ==
    \/ \E a \in Args, b \in Args : CallGcd(a, b)
    \/ GcdRetB
    \/ GcdRetA
    \/ GcdSwap
    \/ GcdRem
    \/ CallExtGcd
    \/ CallModInv
    \/ GcdReset

SpecGcd == InitGcd /\ [][NextGcd]_vars

InitZM == zInit /\ gIdle /\ aIdle

NextZM ==
    \/ \E x \in Ints : FromInt(x)
    \/ Zero
    \/ One
    \/ \E v \in Others : Convert(v)
    \/ \E c \in Operands : Add(c)
    \/ \E c \in Operands : AddAssign(c)
    \/ \E c \in Operands : Sub(c)
    \/ \E c \in Operands : SubAssign(c)
    \/ \E c \in Operands : Mul(c)
    \/ \E c \in Operands : MulAssign(c)
    \/ Neg
    \/ \E c \in Operands : Div(c)
    \/ \E c \in Operands : DivAssign(c)
    \/ Inverse
    \/ \E n \in Exps : Power(n)

SpecZM == InitZM /\ [][NextZM]_vars

\* ZM<Q> over the primes whose products the width holds
Primes == {2, 3, 5, 7, 11, 13}

InitField == InitZM /\ zq \in Primes

SpecField == InitField /\ [][NextZM]_vars

InitGroup == aInit /\ gIdle /\ zIdle

NextGroup ==
    \/ \E x \in Ints : AFromInt(x)
    \/ AIdentity
    \/ \E v \in 0 .. (MaxN - 1) : ARandom(v)
    \/ \E c \in Operands : AAdd(c)
    \/ \E c \in Operands : AAddAssign(c)
    \/ ANeg
    \/ \E c \in Operands : ASub(c)
    \/ \E c \in Operands : ASubAssign(c)
    \/ \E c \in Operands : AMul(c)
    \/ \E c \in Operands : AMulAssign(c)
    \/ \E c \in Operands : ADiv(c)
    \/ \E c \in Operands : ADivAssign(c)
    \/ AInverse

SpecGroup == InitGroup /\ [][NextGroup]_vars

----------------------------------------------------------------------------
(* The claims *)

\* C1: for every pair (a, b), ext_gcd(a, b) returns (g, x, y) with
\* g == gcd(&a, &b), sign included, and a*x + b*y == g.
C1_ExtGcdAgreesWithGcd ==
    edone =>
        /\ eres[1] = gres
        /\ gin[1] * eres[2] + gin[2] * eres[3] = eres[1]

\* C2: every ZM<Q> value an operation returns has its val in [0, Q).
C2_CanonicalResidue ==
    zst = "ok" => (zval >= 0 /\ zval < zq)

\* C3: every AdditiveGroupZM<N> value an operation returns has its val in
\* [0, N).
C3_GroupCanonicalResidue ==
    aval >= 0 /\ aval < an

\* C4: a / ZM::zero() and a /= ZM::zero() end in a failure and produce no
\* value.
C4_DivisionByZeroFails ==
    (zop \in {"div", "div_assign"} /\ zarg = 0) => zst = "panic"

\* C5: for a prime Q and a non-zero residue a of ZM<Q>,
\* a * a.inverse() == ZM::one() and a / a == ZM::one().
C5_InverseIsMultiplicativeInverse ==
    /\ (zop = "inverse" /\ zprev >= 1 /\ zprev < zq) =>
           /\ zst = "ok"
           /\ ZM_mul(zprev, zval, zq, build) = Ok(1)
    /\ (zop \in {"div", "div_assign"} /\ zprev >= 1 /\ zprev < zq /\ zarg = zprev) =>
           /\ zst = "ok"
           /\ zval = 1

\* C5's case: in ZM<13>, from_int(4) / from_int(4) was computed, and is one.
C5_Witness ==
    /\ zq = 13
    /\ zop = "div"
    /\ zprev = 4
    /\ zarg = 4
    /\ zst = "ok"
    /\ zval = 1

\* C6, as claimed: mod_inv(4, 13) returns 10.
C6_ModInvReturnsCanonical ==
    (mdone /\ gin = <<4, 13>>) => mres = 10

\* C6, amended: mod_inv(4, 13) returns the second component of
\* ext_gcd(4, 13), which is -3: congruent to 10 modulo 13, and 10 once it is
\* converted into ZM<13>.
C6_ModInvReturnsCoefficient ==
    (mdone /\ gin = <<4, 13>>) =>
        /\ mres = -3
        /\ mres = ext_gcd(4, 13)[2]
        /\ ZM_from(mres, 13) = Ok(10)

\* C6's case: mod_inv(4, 13) was called.
C6_Witness ==
    /\ mdone
    /\ gin = <<4, 13>>
    /\ mres = -3

RECURSIVE Pow(_, _)
Pow(a, n) == IF n <= 0 THEN 1 ELSE a * Pow(a, n - 1)

\* C7: a.power(n) raises a fatal error for n < 0, and for n >= 0 returns the
\* product of n copies of a reduced mod Q (one for n = 0).
C7_PowerOfNegativeFails ==
    zop = "power" =>
        /\ zarg < 0 => zst = "panic"
        /\ zarg >= 0 => (zst = "ok" /\ zval = Pow(zprev, zarg) % zq)

\* C8: gcd's recursion terminates: the swap is never taken twice in a row,
\* and every call gcd(b, a % b) has a second argument of strictly smaller
\* Euclidean size than the call that made it.
C8_GcdSizeDecreases ==
    [][ /\ GcdSwap => (glast # "swap" /\ gcd_branch(ga', gb') # "swap")
        /\ GcdRem => euc_size(gb') < euc_size(gb) ]_vars

\* C8's case: gcd(-5, 13) swapped, took remainders down to zero and returned.
C8_Witness ==
    /\ gpc = "done"
    /\ gin = <<-5, 13>>
    /\ glast = "rem"
    /\ gb = 0
    /\ gres = 1

\* C9: a * b on canonical residues never overflows: it returns
\* (a * b) mod Q as computed in unbounded integers.
C9_MulDoesNotOverflow ==
    (zop \in {"mul", "mul_assign"} /\ zprev >= 0 /\ zprev < zq
                                    /\ zarg >= 0 /\ zarg < zq) =>
        /\ zst = "ok"
        /\ zval = (zprev * zarg) % zq

\* C10: on canonical a and b, a += b equals a + b, a *= b equals a * b,
\* a -= b equals a - b and a /= b equals a / b.
C10_CompoundAgreesWithBinary ==
    (aprev >= 0 /\ aprev < an /\ aarg >= 0 /\ aarg < an) =>
        /\ aop = "add_assign" => AG_eq(aval, AG_add(aprev, aarg, an), an)
        /\ aop = "mul_assign" => AG_eq(aval, AG_mul(aprev, aarg, an), an)
        /\ aop = "sub_assign" => AG_eq(aval, AG_sub(aprev, aarg, an), an)
        /\ aop = "div_assign" => AG_eq(aval, AG_div(aprev, aarg, an), an)

====
